---- MODULE Spec2Model ----
(***************************************************************************)
(* coast-alert: the HazardMap component (src/src/components/HazardMap.tsx) *)
(* and its hotspot clustering.                                             *)
(*                                                                         *)
(* Coordinates are fixed-point numbers in hundredths of a degree, so the   *)
(* source's gridSize 0.1 is 10, gridSize/2 is 5.  A report is the part of  *)
(* a HazardReport the clustering reads: location.lat, location.lng and     *)
(* severity.  A report collection is a sequence (a JavaScript array); two  *)
(* reports of a collection may be equal in all three fields.               *)
(***************************************************************************)
EXTENDS Integers, Sequences, FiniteSets, Bags

VARIABLES
    reports,      \* HazardMap A: the `reports` prop of the last render
    hotspots,     \* HazardMap A: the `hotspots` state (useState, line 117)
    reportsB,     \* HazardMap B (a second, independent mount): `reports` prop
    hotspotsB,    \* HazardMap B: `hotspots` state
    selectedReport,  \* HazardMap A: `selectedReport` state (line 113);
                     \* <<>> is null, <<r>> is the report r
    effectPending,   \* HazardMap A: the effect of lines 253-255 is scheduled
    nearbyHotspot,   \* HazardMap A: outcome of the lookup of lines 485-505
                     \* in the last render
    allReports,      \* Dashboard: `allReports` state (Dashboard.tsx 29)
    mapFilters,      \* Dashboard: `mapFilters` state (Dashboard.tsx 38-42)
    isAuthenticated, \* AdminDashboard: `isAuthenticated` state (line 34)
    password,        \* AdminAuth: `password` state, a string of characters
    authIsLoading,   \* AdminAuth: `isLoading` state
    authError,       \* AdminAuth: `error` state
    authSubmitted,   \* AdminAuth: handleSubmit waiting in its delay, with
                     \* the password of its closure: <<>> or <<password>>
    adminReports,    \* AdminDashboard: `reports` state (line 35)
    adminLoading,    \* AdminDashboard: `loading` state (line 37)
    adminRefreshing, \* AdminDashboard: `refreshing` state (line 38)
    adminLoads,      \* AdminDashboard: the bag of loadAllReports calls
                     \* awaiting getAllReports, each with the snapshot it
                     \* has read
    adminFilteredReports,  \* AdminDashboard: `filteredReports` state
    searchTerm,      \* AdminDashboard: `searchTerm` state (line 39)
    statusFilter,    \* AdminDashboard: `statusFilter` state (line 40)
    severityFilter,  \* AdminDashboard: `severityFilter` state (line 41)
    adminUpdates,    \* AdminDashboard: the bag of handleStatusChange
                     \* calls awaiting updateReportStatus
    adminToast,      \* AdminDashboard: the toast shown last
    adminEffectPending,  \* AdminDashboard: the filter effect has to run
    store,           \* Firestore: the documents of hazardReports
    clock,           \* the time of the last write to the collection
    recentReports,   \* Dashboard: `recentReports` state (line 28)
    stats,           \* Dashboard: `stats` state (lines 30-35)
    dashLoading,     \* Dashboard: `loading` state (line 36)
    dashRefreshing,  \* Dashboard: `refreshing` state (line 37)
    dashMounted,     \* Dashboard: the mount effect (lines 63-65) has run
    dashLoads,       \* Dashboard: the loadDashboardData calls awaiting
                     \* Promise.all, each with its three fetches
    dashConsole,     \* Dashboard: what console.error logged last (line 56)
    formData,        \* ReportHazard: `formData` state (lines 28-36)
    location,        \* ReportHazard: `location` state: <<>> is null
    isSubmitting,    \* ReportHazard: `isSubmitting` state
    currentUser,     \* useAuth().currentUser: <<>> is null, else <<uid>>
    saveInFlight,    \* ReportHazard: the saveHazardReport call awaited by
                     \* handleSubmit, <<>> or <<its arguments>>
    toastShown       \* ReportHazard: the toast shown last

\* The details panel of HazardMap A, used when the render and the effect
\* are separate steps.
detailVars == <<selectedReport, effectPending, nearbyHotspot>>

\* Everything outside the two HazardMap mounts' reports and hotspots.
\* The Dashboard page, whose map is HazardMap A.
dashVars == <<allReports, mapFilters>>

\* The admin page: AdminDashboard and the AdminAuth form it shows.
adminVars == <<isAuthenticated, password, authIsLoading, authError,
               authSubmitted, adminReports, adminLoading, adminRefreshing,
               adminLoads, adminFilteredReports, searchTerm, statusFilter,
               severityFilter, adminUpdates, adminToast, adminEffectPending>>

\* The hazardReports collection.
storeVars == <<store, clock>>

\* The ReportHazard page.
formVars == <<formData, location, isSubmitting, currentUser, saveInFlight,
              toastShown>>

\* What loadDashboardData sets besides allReports, and its calls.
dashLoadVars == <<recentReports, stats, dashLoading, dashRefreshing,
                  dashMounted, dashLoads, dashConsole>>

otherVars ==
    <<detailVars, dashVars, adminVars, formVars, storeVars, dashLoadVars>>

vars == <<reports, hotspots, reportsB, hotspotsB, otherVars>>

(***************************************************************************)
(* Bounds                                                                  *)
(***************************************************************************)
MaxReports == 6      \* longest report collection given to HazardMap A
MaxRunLen == 2       \* longest collection when two mounts run side by side

(***************************************************************************)
(* Data                                                                    *)
(***************************************************************************)
Severities == {"low", "medium", "high", "critical"}

\* The reports the collections are built from.  (-5,-3) lies in the cell
\* with lower-left corner (-10,-10); (5,3) and (8,7) both lie in cell (0,0).
ReportDomain ==
    { [lat |-> -5, lng |-> -3, severity |-> "low"],
      [lat |->  5, lng |->  3, severity |-> "low"],
      [lat |->  5, lng |->  3, severity |-> "medium"],
      [lat |->  8, lng |->  7, severity |-> "high"],
      [lat |->  8, lng |->  7, severity |-> "critical"] }

Range(s) == { s[i] : i \in DOMAIN s }

(***************************************************************************)
(* calculateHotspots (HazardMap.tsx 196-234)                               *)
(***************************************************************************)
gridSize == 10       \* 0.1 degree
minReports == 2

\* Math.floor(x / d) for d > 0: rounds toward negative infinity.
MathFloorTrunc(x, d) == IF x >= 0 THEN x \div d ELSE -((-x) \div d)
MathFloor(x, d) == x \div d

\* Math.min
MathMin(a, b) == IF a <= b THEN a ELSE b

\* Lines 207-209: the cell key of a report.  The source's key is the string
\* `${gridLat},${gridLng}`; number-to-string conversion is injective on the
\* products k * gridSize and the separator occurs in neither number, so the
\* key is modelled as the pair.
gridLat(report) == MathFloor(report.lat, gridSize) * gridSize
gridLng(report) == MathFloor(report.lng, gridSize) * gridSize
key(report) == <<gridLat(report), gridLng(report)>>

\* Lines 206-215, one iteration of reports.forEach: the grid is an object
\* whose properties keep insertion order; it is a sequence of cells here.
GridAddFirstReport(grid, report) ==
    IF \E i \in DOMAIN grid : grid[i].key = key(report)
    THEN [ i \in DOMAIN grid |->
             IF grid[i].key = key(report)
             THEN [grid[i] EXCEPT !.reports = Append(@, report)]
             ELSE grid[i] ]
    ELSE Append(grid, [ key |-> key(report),
                        lat |-> report.lat,
                        lng |-> report.lng,
                        reports |-> <<report>> ])
GridAddCorner(grid, report) ==
    IF \E i \in DOMAIN grid : grid[i].key = key(report)
    THEN [ i \in DOMAIN grid |->
             IF grid[i].key = key(report)
             THEN [grid[i] EXCEPT !.reports = Append(@, report)]
             ELSE grid[i] ]
    ELSE Append(grid, [ key |-> key(report),
                        lat |-> gridLat(report),
                        lng |-> gridLng(report),
                        reports |-> <<report>> ])
GridAdd(grid, report) ==
    IF \E i \in DOMAIN grid : grid[i].key = key(report)
    THEN [ i \in DOMAIN grid |->
             IF grid[i].key = key(report)
             THEN [grid[i] EXCEPT !.reports = Append(@, report)]
             ELSE grid[i] ]
    ELSE Append(grid, [ key |-> key(report),
                        lat |-> gridLat(report) + gridSize \div 2,
                        lng |-> gridLng(report) + gridSize \div 2,
                        reports |-> <<report>> ])

\* Lines 204-215: the grid after reports.forEach.
RECURSIVE BuildGrid(_)
BuildGrid(rs) ==
    IF Len(rs) = 0 THEN <<>>
    ELSE GridAdd(BuildGrid(SubSeq(rs, 1, Len(rs) - 1)), rs[Len(rs)])

\* Lines 220-221: the local `severity` of a qualifying cell.  It is computed
\* and never used: the pushed hotspot (223-229) has no severity field.
severityHighFirst(cellReports) ==
    IF \E i \in DOMAIN cellReports : cellReports[i].severity = "high"
    THEN "high"
    ELSE IF \E i \in DOMAIN cellReports : cellReports[i].severity = "critical"
         THEN "critical"
         ELSE "medium"
severity(cellReports) ==
    IF \E i \in DOMAIN cellReports : cellReports[i].severity = "critical"
    THEN "critical"
    ELSE IF \E i \in DOMAIN cellReports : cellReports[i].severity = "high"
         THEN "high"
         ELSE "medium"

\* Line 219: the cell has enough reports.
QualifiesStrict(cell) == Len(cell.reports) > minReports
QualifiesAny(cell) == Len(cell.reports) >= 1
Qualifies(cell) == Len(cell.reports) >= minReports

\* Line 227.
RadiusUncapped(n) == n * 2000
Radius(n) == MathMin(n * 2000, 10000)

\* Lines 223-229: the hotspot pushed for a qualifying cell.
HotspotOfWholeCollection(cell, rs) ==
    [ lat |-> cell.lat,
      lng |-> cell.lng,
      intensity |-> Len(rs),
      radius |-> Radius(Len(cell.reports)),
      reportCount |-> Len(cell.reports) ]
HotspotOf(cell, rs) ==
    [ lat |-> cell.lat,
      lng |-> cell.lng,
      intensity |-> Len(cell.reports),
      radius |-> Radius(Len(cell.reports)),
      reportCount |-> Len(cell.reports) ]

\* Lines 199-231: the local `hotspots` array built from a collection, in the
\* order of Object.values(grid).
RECURSIVE EmitHotspots(_, _)
EmitHotspots(grid, rs) ==
    IF Len(grid) = 0 THEN <<>>
    ELSE LET rest == EmitHotspots(SubSeq(grid, 1, Len(grid) - 1), rs)
             cell == grid[Len(grid)]
         IN  IF Qualifies(cell) THEN Append(rest, HotspotOf(cell, rs)) ELSE rest

BuiltHotspots(rs) == EmitHotspots(BuildGrid(rs), rs)

\* Lines 196-234: the `hotspots` state after calculateHotspots has run with
\* the collection rs while the state held hs.  Line 197 returns before
\* setHotspots when the collection is empty.
calculateHotspots(rs, hs) ==
    IF Len(rs) = 0 THEN hs ELSE BuiltHotspots(rs)

(***************************************************************************)
(* The component: a render with a new `reports` array followed by the      *)
(* effect of lines 253-255, which runs calculateHotspots.                  *)
(***************************************************************************)
\* Lines 425 and 485-505: what a render makes of the lookup.  The panel
\* and the lookup in it are rendered only while a report is selected.
PanelHidden == [status |-> "hidden", hotspot |-> <<>>]

InitDetail ==
    /\ selectedReport = <<>>
    /\ effectPending = FALSE
    /\ nearbyHotspot = PanelHidden

\* Dashboard.tsx 29 and 38-42.
InitDashboard ==
    /\ allReports = <<>>
    /\ mapFilters = [severity |-> "all", status |-> "all", hazardType |-> "all"]

\* AdminDashboard.tsx 34-38 and AdminAuth 204-207.
InitAdmin ==
    /\ isAuthenticated = FALSE
    /\ password = <<>>
    /\ authIsLoading = FALSE
    /\ authError = ""
    /\ authSubmitted = <<>>
    /\ adminReports = <<>>
    /\ adminLoading = TRUE
    /\ adminRefreshing = FALSE
    /\ adminLoads = EmptyBag
    /\ adminFilteredReports = <<>>
    /\ searchTerm = <<>>
    /\ statusFilter = "all"
    /\ severityFilter = "all"
    /\ adminUpdates = EmptyBag
    /\ adminToast = ""
    /\ adminEffectPending = FALSE

\* The collection before any report is saved.
InitStore ==
    /\ store = <<>>
    /\ clock = 0

\* ReportHazard.tsx 28-36 and 168-176: the empty form (mediaFiles is never
\* set by the page and is left out).
EmptyForm ==
    [ reporterName |-> <<>>,
      reporterRole |-> "",
      hazardType |-> "",
      severity |-> "",
      location |-> [lat |-> 0, lng |-> 0],
      description |-> <<>> ]

\* ReportHazard.tsx 26-38.
InitForm ==
    /\ formData = EmptyForm
    /\ location = <<>>
    /\ isSubmitting = FALSE
    /\ currentUser = <<>>
    /\ saveInFlight = <<>>
    /\ toastShown = ""

\* Dashboard.tsx 28-37.
NoStats ==
    [ totalReports |-> 0, pendingReports |-> 0, verifiedReports |-> 0,
      criticalReports |-> 0 ]

InitDashboardLoad ==
    /\ recentReports = <<>>
    /\ stats = NoStats
    /\ dashLoading = TRUE
    /\ dashRefreshing = FALSE
    /\ dashMounted = FALSE
    /\ dashLoads = <<>>
    /\ dashConsole = ""

Init ==
    /\ reports = <<>>
    /\ hotspots = <<>>
    /\ reportsB = <<>>
    /\ hotspotsB = <<>>
    /\ InitDetail
    /\ InitDashboard
    /\ InitAdmin
    /\ InitForm
    /\ InitStore
    /\ InitDashboardLoad

\* The parent renders HazardMap A with the array `new`.
RenderA(new) ==
    /\ reports' = new
    /\ hotspots' = calculateHotspots(new, hotspots)
    /\ UNCHANGED <<reportsB, hotspotsB, otherVars>>

RenderBSharedGrid(new) ==
    /\ reportsB' = new
    /\ hotspotsB' = calculateHotspots(reports \o new, hotspotsB)
    /\ UNCHANGED <<reports, hotspots, otherVars>>
RenderB(new) ==
    /\ reportsB' = new
    /\ hotspotsB' = calculateHotspots(new, hotspotsB)
    /\ UNCHANGED <<reports, hotspots, otherVars>>

SwapAt(rs, i) ==
    [ k \in DOMAIN rs |-> IF k = i THEN rs[i + 1]
                          ELSE IF k = i + 1 THEN rs[i] ELSE rs[k] ]

RemoveAt(rs, i) == SubSeq(rs, 1, i - 1) \o SubSeq(rs, i + 1, Len(rs))

WithSeverity(rs, s) == SelectSeq(rs, LAMBDA r : r.severity = s)

\* A report is added to the collection.
AddReport(r, max) == Len(reports) < max /\ RenderA(Append(reports, r))
\* A report leaves the collection.
RemoveReport(i) == i \in DOMAIN reports /\ RenderA(RemoveAt(reports, i))
\* The collection arrives in another order.
SwapReports(i) == i \in 1..(Len(reports) - 1) /\ RenderA(SwapAt(reports, i))
\* The parent passes only the reports of one severity.
FilterReports(s) == RenderA(WithSeverity(reports, s))
\* The parent renders again with an equal, new array.
Rerender == RenderA(reports)

AddReportB(r, max) == Len(reportsB) < max /\ RenderB(Append(reportsB, r))
RemoveReportB(i) == i \in DOMAIN reportsB /\ RenderB(RemoveAt(reportsB, i))
SwapReportsB(i) == i \in 1..(Len(reportsB) - 1) /\ RenderB(SwapAt(reportsB, i))
FilterReportsB(s) == RenderB(WithSeverity(reportsB, s))
RerenderB == RenderB(reportsB)

Next ==
    \/ \E r \in ReportDomain : AddReport(r, MaxReports)
    \/ \E i \in 1..MaxReports : RemoveReport(i)
    \/ \E i \in 1..MaxReports : SwapReports(i)
    \/ \E s \in Severities : FilterReports(s)
    \/ Rerender

Spec == Init /\ [][Next]_vars

\* Two mounts of HazardMap, each fed its own sequence of collections.
NextTwoRuns ==
    \/ \E r \in ReportDomain : AddReport(r, MaxRunLen)
    \/ \E i \in 1..MaxRunLen : RemoveReport(i)
    \/ \E i \in 1..MaxRunLen : SwapReports(i)
    \/ \E s \in Severities : FilterReports(s)
    \/ Rerender
    \/ \E r \in ReportDomain : AddReportB(r, MaxRunLen)
    \/ \E i \in 1..MaxRunLen : RemoveReportB(i)
    \/ \E i \in 1..MaxRunLen : SwapReportsB(i)
    \/ \E s \in Severities : FilterReportsB(s)
    \/ RerenderB

SpecTwoRuns == Init /\ [][NextTwoRuns]_vars

(***************************************************************************)
(* The details panel of HazardMap (lines 113, 371-379, 425-510): a marker  *)
(* click selects a report, and every render of the panel looks up the      *)
(* hotspot near the selected report.  Here a render and the effect that    *)
(* follows it are separate steps; React runs the effect before it handles  *)
(* the next event.                                                         *)
(***************************************************************************)
MaxDetailLen == 4    \* longest collection while the details panel is used

\* (5,5) is the center of cell (0,0); (8,9) lies at distance exactly 5 =
\* 0.05 degree from it; (5,3) at distance 2; (-5,-3) in cell (-10,-10).
DetailDomain ==
    { [lat |-> -5, lng |-> -3, severity |-> "low"],
      [lat |->  5, lng |->  5, severity |-> "medium"],
      [lat |->  8, lng |->  9, severity |-> "high"],
      [lat |->  5, lng |->  3, severity |-> "critical"] }

nearbyThreshold == 5     \* 0.05 degree

\* Lines 487-491: Math.sqrt(dlat^2 + dlng^2) < 0.05.  The square root is
\* increasing, so the comparison is made on the squares.
WithinThresholdInclusive(hotspot, report) ==
    (hotspot.lat - report.lat) * (hotspot.lat - report.lat)
      + (hotspot.lng - report.lng) * (hotspot.lng - report.lng)
        <= nearbyThreshold * nearbyThreshold
WithinThreshold(hotspot, report) ==
    (hotspot.lat - report.lat) * (hotspot.lat - report.lat)
      + (hotspot.lng - report.lng) * (hotspot.lng - report.lng)
        < nearbyThreshold * nearbyThreshold

\* Line 486, Array.prototype.find: the first element that passes the test,
\* <<>> (undefined) when none does.
RECURSIVE ArrayFind(_, _)
ArrayFind(hs, report) ==
    IF Len(hs) = 0 THEN <<>>
    ELSE IF WithinThreshold(Head(hs), report) THEN <<Head(hs)>>
         ELSE ArrayFind(Tail(hs), report)

\* Lines 485-505: the lookup.  It reads selectedReport.location, which
\* throws a TypeError when selectedReport is null.
Lookup(sel, hs) ==
    IF sel = <<>> THEN [status |-> "TypeError", hotspot |-> <<>>]
    ELSE LET found == ArrayFind(hs, sel[1])
         IN  IF found = <<>> THEN [status |-> "none", hotspot |-> <<>>]
             ELSE [status |-> "found", hotspot |-> found]

\* Line 425: `selectedReport && ( ... )`.
RenderPanelUnguarded(sel, hs) == Lookup(sel, hs)
RenderPanel(sel, hs) == IF sel = <<>> THEN PanelHidden ELSE Lookup(sel, hs)

\* State outside HazardMap A.
outsideMapA ==
    <<reportsB, hotspotsB, dashVars, adminVars, formVars, storeVars,
      dashLoadVars>>

\* The parent renders HazardMap A with the array `new`: the panel is
\* rendered with the hotspots held so far and the effect is scheduled.
DetailRender(new) ==
    /\ ~effectPending
    /\ reports' = new
    /\ effectPending' = TRUE
    /\ nearbyHotspot' = RenderPanel(selectedReport, hotspots)
    /\ UNCHANGED <<hotspots, selectedReport, outsideMapA>>

DetailAddReport(r) ==
    Len(reports) < MaxDetailLen /\ DetailRender(Append(reports, r))
DetailRemoveReport(i) ==
    i \in DOMAIN reports /\ DetailRender(RemoveAt(reports, i))
DetailSwapReports(i) ==
    i \in 1..(Len(reports) - 1) /\ DetailRender(SwapAt(reports, i))
DetailClearReports == Len(reports) > 0 /\ DetailRender(<<>>)

\* Lines 253-255: the effect runs calculateHotspots; a setHotspots renders
\* the panel again.
RunEffectPopsReports ==
    /\ effectPending
    /\ hotspots' = calculateHotspots(reports, hotspots)
    /\ reports' = SubSeq(reports, 1, Len(reports) - 1)
    /\ effectPending' = FALSE
    /\ nearbyHotspot' = RenderPanel(selectedReport, hotspots')
    /\ UNCHANGED <<selectedReport, outsideMapA>>
RunEffect ==
    /\ effectPending
    /\ hotspots' = calculateHotspots(reports, hotspots)
    /\ effectPending' = FALSE
    /\ nearbyHotspot' = RenderPanel(selectedReport, hotspots')
    /\ UNCHANGED <<reports, selectedReport, outsideMapA>>

\* Lines 376-378 and 412: a click on the marker of a report selects it.
SelectReport(k) ==
    /\ ~effectPending
    /\ k \in DOMAIN reports
    /\ selectedReport' = <<reports[k]>>
    /\ nearbyHotspot' = RenderPanel(selectedReport', hotspots)
    /\ UNCHANGED <<reports, hotspots, effectPending, outsideMapA>>

\* Line 434: the panel is closed.
CloseDetails ==
    /\ ~effectPending
    /\ selectedReport # <<>>
    /\ selectedReport' = <<>>
    /\ nearbyHotspot' = RenderPanel(selectedReport', hotspots)
    /\ UNCHANGED <<reports, hotspots, effectPending, outsideMapA>>

NextDetail ==
    \/ \E r \in DetailDomain : DetailAddReport(r)
    \/ \E i \in 1..MaxDetailLen : DetailRemoveReport(i)
    \/ \E i \in 1..MaxDetailLen : DetailSwapReports(i)
    \/ DetailClearReports
    \/ RunEffect
    \/ \E k \in 1..MaxDetailLen : SelectReport(k)
    \/ CloseDetails

SpecDetail == Init /\ [][NextDetail]_vars

(***************************************************************************)
(* The Dashboard page (src/src/pages/Dashboard.tsx): it holds allReports   *)
(* and mapFilters and renders <HazardMap reports={filteredReports}>; the   *)
(* map is HazardMap A.  A render of the page is followed by the map's      *)
(* effect.                                                                 *)
(***************************************************************************)
MaxDashReports == 3  \* longest allReports

\* Reports with the fields the Dashboard filters read.
DashDomain ==
    { [lat |->  5, lng |->  3, severity |-> "low", status |-> "pending",
       hazardType |-> "High Waves"],
      [lat |->  8, lng |->  7, severity |-> "low", status |-> "verified",
       hazardType |-> "High Waves"],
      [lat |->  8, lng |->  7, severity |-> "critical", status |-> "pending",
       hazardType |-> "Tsunami Warning"],
      [lat |-> -5, lng |-> -3, severity |-> "high", status |-> "rejected",
       hazardType |-> "High Waves"] }

Statuses == {"pending", "verified", "rejected"}

\* Dashboard.tsx 72-77: the callback of allReports.filter.
PassesMapFilters(report, filters) ==
    IF filters.severity # "all" /\ report.severity # filters.severity
    THEN FALSE
    ELSE IF filters.status # "all" /\ report.status # filters.status
    THEN FALSE
    ELSE IF filters.hazardType # "all" /\ report.hazardType # filters.hazardType
    THEN FALSE
    ELSE TRUE

filteredReports(all, filters) ==
    SelectSeq(all, LAMBDA r : PassesMapFilters(r, filters))

\* Dashboard.tsx 79: the hazard types offered by the third select.
uniqueHazardTypes(all) == { all[i].hazardType : i \in DOMAIN all }

\* A render of the Dashboard with the given state, and the map's effect.
DashboardMapRender(all, filters) ==
    /\ allReports' = all
    /\ mapFilters' = filters
    /\ reports' = filteredReports(all, filters)
    /\ hotspots' = calculateHotspots(reports', hotspots)
    /\ UNCHANGED <<reportsB, hotspotsB, detailVars, adminVars, formVars,
                   storeVars>>

DashboardRender(all, filters) ==
    /\ DashboardMapRender(all, filters)
    /\ UNCHANGED dashLoadVars

\* Dashboard.tsx 44-61, setAllReports: a load brings a collection with one
\* more report, or with one report less.
DashboardLoadsMore(r) ==
    /\ Len(allReports) < MaxDashReports
    /\ DashboardRender(Append(allReports, r), mapFilters)
DashboardLoadsLess(i) ==
    /\ i \in DOMAIN allReports
    /\ DashboardRender(RemoveAt(allReports, i), mapFilters)

\* Dashboard.tsx 242-275: the three selects.
SetSeverityFilter(v) ==
    /\ v # mapFilters.severity
    /\ DashboardRender(allReports, [mapFilters EXCEPT !.severity = v])
SetStatusFilter(v) ==
    /\ v # mapFilters.status
    /\ DashboardRender(allReports, [mapFilters EXCEPT !.status = v])
SetHazardTypeFilter(v) ==
    /\ v # mapFilters.hazardType
    /\ DashboardRender(allReports, [mapFilters EXCEPT !.hazardType = v])

NextDashboard ==
    \/ \E r \in DashDomain : DashboardLoadsMore(r)
    \/ \E i \in 1..MaxDashReports : DashboardLoadsLess(i)
    \/ \E v \in {"all"} \cup Severities : SetSeverityFilter(v)
    \/ \E v \in {"all"} \cup Statuses : SetStatusFilter(v)
    \/ \E v \in {"all"} \cup uniqueHazardTypes(allReports) :
          SetHazardTypeFilter(v)

SpecDashboard == Init /\ [][NextDashboard]_vars

(***************************************************************************)
(* Dashboard.loadDashboardData (Dashboard.tsx 44-70).  A call awaits       *)
(* Promise.all of three fetches: it goes on when the three are fulfilled,  *)
(* or as soon as one is rejected, and then the results of the others are   *)
(* dropped.  A fetch is <<>> while it is pending and <<result>> once it is *)
(* fulfilled.                                                              *)
(***************************************************************************)
MaxDashLoads == 2    \* loadDashboardData calls awaiting at the same time

Fetches == { "recent", "all", "stats" }

\* What the three service calls answer.
FetchResults(which) ==
    CASE which = "recent" ->
            { <<>>,
              << [lat |-> 5, lng |-> 3, severity |-> "low",
                  status |-> "pending", hazardType |-> "High Waves"] >> }
      [] which = "all" ->
            { << [lat |-> 5, lng |-> 3, severity |-> "low",
                  status |-> "pending", hazardType |-> "High Waves"] >>,
              << [lat |-> 5, lng |-> 3, severity |-> "low",
                  status |-> "pending", hazardType |-> "High Waves"],
                 [lat |-> 5, lng |-> 3, severity |-> "critical",
                  status |-> "verified", hazardType |-> "High Waves"] >> }
      [] which = "stats" ->
            { [ totalReports |-> 1, pendingReports |-> 1,
                verifiedReports |-> 0, criticalReports |-> 0 ],
              [ totalReports |-> 2, pendingReports |-> 1,
                verifiedReports |-> 1, criticalReports |-> 1 ] }

\* Lines 46-50: the call, with its three fetches pending.
NewDashLoad == [ recent |-> <<>>, all |-> <<>>, stats |-> <<>> ]

AllFulfilled(load) ==
    load.recent # <<>> /\ load.all # <<>> /\ load.stats # <<>>

outsideDashboard ==
    <<reportsB, hotspotsB, detailVars, adminVars, formVars, storeVars>>

\* Lines 63-65: the effect of the mount calls loadDashboardData.
DashboardMountEffect ==
    /\ ~dashMounted
    /\ dashMounted' = TRUE
    /\ dashLoads' = Append(dashLoads, NewDashLoad)
    /\ UNCHANGED <<recentReports, stats, dashLoading, dashRefreshing,
                   dashConsole>>
    /\ UNCHANGED <<reports, hotspots, dashVars, outsideDashboard>>

\* Lines 67-70 and 174-178: the Refresh button, disabled while refreshing.
DashboardRefresh ==
    /\ dashMounted
    /\ ~dashRefreshing
    /\ Len(dashLoads) < MaxDashLoads
    /\ dashRefreshing' = TRUE
    /\ dashLoads' = Append(dashLoads, NewDashLoad)
    /\ UNCHANGED <<recentReports, stats, dashLoading, dashMounted,
                   dashConsole>>
    /\ UNCHANGED <<reports, hotspots, dashVars, outsideDashboard>>

\* Lines 46-54 and 57-60: a fetch of the call i is fulfilled.  When it is
\* the last of the three, the three states are set, then loading and
\* refreshing; the page is rendered with the new allReports.
DashFetchFulfilsSetsAtOnce(i, which, result) ==
    /\ i \in DOMAIN dashLoads
    /\ dashLoads[i][which] = <<>>
    /\ LET load == [dashLoads[i] EXCEPT ![which] = <<result>>]
       IN  /\ recentReports'
                = IF which = "recent" THEN result ELSE recentReports
           /\ stats' = IF which = "stats" THEN result ELSE stats
           /\ DashboardMapRender(
                  IF which = "all" THEN result ELSE allReports, mapFilters)
           /\ IF AllFulfilled(load)
              THEN /\ dashLoading' = FALSE
                   /\ dashRefreshing' = FALSE
                   /\ dashLoads' = RemoveAt(dashLoads, i)
              ELSE /\ dashLoads' = [dashLoads EXCEPT ![i] = load]
                   /\ UNCHANGED <<dashLoading, dashRefreshing>>
    /\ UNCHANGED <<dashMounted, dashConsole>>
DashFetchFulfils(i, which, result) ==
    /\ i \in DOMAIN dashLoads
    /\ dashLoads[i][which] = <<>>
    /\ LET load == [dashLoads[i] EXCEPT ![which] = <<result>>]
       IN  IF AllFulfilled(load)
           THEN /\ recentReports' = load.recent[1]
                /\ stats' = load.stats[1]
                /\ DashboardMapRender(load.all[1], mapFilters)
                /\ dashLoading' = FALSE
                /\ dashRefreshing' = FALSE
                /\ dashLoads' = RemoveAt(dashLoads, i)
           ELSE /\ dashLoads' = [dashLoads EXCEPT ![i] = load]
                /\ UNCHANGED <<recentReports, stats, dashLoading,
                               dashRefreshing>>
                /\ UNCHANGED <<reports, hotspots, dashVars,
                               outsideDashboard>>
    /\ UNCHANGED <<dashMounted, dashConsole>>

\* Lines 55-60: a fetch of the call i is rejected; the catch logs the error
\* and the finally clears loading and refreshing.
DashFetchRejects(i, which) ==
    /\ i \in DOMAIN dashLoads
    /\ dashLoads[i][which] = <<>>
    /\ dashLoading' = FALSE
    /\ dashRefreshing' = FALSE
    /\ dashLoads' = RemoveAt(dashLoads, i)
    /\ dashConsole' = "Error loading dashboard data:"
    /\ UNCHANGED <<recentReports, stats, dashMounted>>
    /\ UNCHANGED <<reports, hotspots, dashVars, outsideDashboard>>

NextDashboardLoad ==
    \/ DashboardMountEffect
    \/ DashboardRefresh
    \/ \E i \in 1..MaxDashLoads, which \in Fetches :
          \E result \in FetchResults(which) :
              DashFetchFulfils(i, which, result)
    \/ \E i \in 1..MaxDashLoads, which \in Fetches :
          DashFetchRejects(i, which)

SpecDashboardLoad == Init /\ [][NextDashboardLoad]_vars


(***************************************************************************)
(* Strings that the code trims or compares are sequences of characters.    *)
(***************************************************************************)
\* String.prototype.trim: white space is removed from both ends.
RECURSIVE TrimStart(_)
TrimStart(str) ==
    IF Len(str) > 0 /\ Head(str) = " " THEN TrimStart(Tail(str)) ELSE str

RECURSIVE TrimEnd(_)
TrimEnd(str) ==
    IF Len(str) > 0 /\ str[Len(str)] = " "
    THEN TrimEnd(SubSeq(str, 1, Len(str) - 1)) ELSE str

Trim(str) == TrimEnd(TrimStart(str))

(***************************************************************************)
(* The service (src/src/services/hazardService.ts) and the hazardReports   *)
(* collection it writes.  A document is [id, data]; ids are given in the   *)
(* order of creation and no code deletes a document.  A string is a        *)
(* sequence of characters where the code looks inside it and an atom where *)
(* the code only compares or copies it.                                    *)
(***************************************************************************)
MaxStored == 2   \* most documents in the collection
MaxClock == 3    \* latest time of a write

\* Users that can be logged in.
Users == { "u1" }

\* Lines 28-41: reportData, built field by field from the form data
\* (userEmail, which no code reads back, is left out).
reportDataVerifiesOfficials(formData_, userId, now) ==
    [ reporterName |-> formData_.reporterName,
      reporterRole |-> formData_.reporterRole,
      hazardType |-> formData_.hazardType,
      severity |-> formData_.severity,
      location |-> formData_.location,
      description |-> formData_.description,
      mediaUrls |-> <<>>,
      status |-> IF formData_.reporterRole = "official"
                 THEN "verified" ELSE "pending",
      createdAt |-> now,
      updatedAt |-> now,
      userId |-> userId ]
reportData(formData_, userId, now) ==
    [ reporterName |-> formData_.reporterName,
      reporterRole |-> formData_.reporterRole,
      hazardType |-> formData_.hazardType,
      severity |-> formData_.severity,
      location |-> formData_.location,
      description |-> formData_.description,
      mediaUrls |-> <<>>,
      status |-> "pending",
      createdAt |-> now,
      updatedAt |-> now,
      userId |-> userId ]

\* Lines 43-49: addDoc gives the document a new id; the id is returned.
addDoc(st, data) == Append(st, [id |-> Len(st) + 1, data |-> data])

\* Lines 22-54, on success: the collection after the call.
saveHazardReport(st, formData_, userId, now) ==
    addDoc(st, reportData(formData_, userId, now))

\* Lines 172-175: orderBy('createdAt', 'desc').
RECURSIVE OrderByCreatedAtDesc(_)
OrderByCreatedAtDesc(st) ==
    IF st = <<>> THEN <<>>
    ELSE LET first == CHOOSE i \in DOMAIN st :
                        /\ \A j \in DOMAIN st :
                              st[j].data.createdAt <= st[i].data.createdAt
                        /\ \A j \in 1..(i - 1) :
                              st[j].data.createdAt < st[i].data.createdAt
         IN  <<st[first]>> \o OrderByCreatedAtDesc(RemoveAt(st, first))

\* Lines 180-197: the report built from a document.
ReportOfDoc(d) ==
    [ id |-> d.id,
      reporterName |-> d.data.reporterName,
      reporterRole |-> d.data.reporterRole,
      hazardType |-> d.data.hazardType,
      severity |-> d.data.severity,
      location |-> d.data.location,
      description |-> d.data.description,
      mediaUrls |-> d.data.mediaUrls,
      status |-> d.data.status,
      createdAt |-> d.data.createdAt,
      updatedAt |-> d.data.updatedAt,
      userId |-> d.data.userId ]

\* Lines 171-205, on success: the reports returned for the collection.
getAllReports(st) ==
    LET docs == OrderByCreatedAtDesc(st)
    IN  [ i \in DOMAIN docs |-> ReportOfDoc(docs[i]) ]

\* Lines 210-216, on success: updateDoc writes status and updatedAt of the
\* document with the given id.
updateReportStatusWholeCollection(st, reportId, status, now) ==
    [ i \in DOMAIN st |->
        [ st[i] EXCEPT !.data.status = status, !.data.updatedAt = now ] ]
updateReportStatus(st, reportId, status, now) ==
    [ i \in DOMAIN st |->
        IF st[i].id = reportId
        THEN [ st[i] EXCEPT !.data.status = status, !.data.updatedAt = now ]
        ELSE st[i] ]

\* updateDoc rejects when no document has the id.
DocExists(st, reportId) == \E i \in DOMAIN st : st[i].id = reportId

(***************************************************************************)
(* The admin page (src/src/pages/AdminDashboard.tsx and the AdminAuth      *)
(* component, src/unnamed/part_000 190-330).  AdminDashboard renders       *)
(* AdminAuth while isAuthenticated is false and the dashboard otherwise;   *)
(* AdminAuth loses its state when it is unmounted.  The hooks of           *)
(* AdminDashboard run in both views.                                       *)
(***************************************************************************)
MaxLoadsInFlight == 2    \* calls awaited at the same time

\* part_000 210: "admin@123".
ADMIN_PASSWORD == <<"a", "d", "m", "i", "n", "@", "1", "2", "3">>

\* What is typed into the password field.
PasswordInputs ==
    { <<>>, <<" ">>, <<"g", "u", "e", "s", "s">>,
      ADMIN_PASSWORD, ADMIN_PASSWORD \o <<" ">> }

\* Form data with which clients call saveHazardReport.
ClientForms ==
    { [ reporterName |-> <<"A", "l">>, reporterRole |-> "citizen",
        hazardType |-> <<"H", "i">>, severity |-> "high",
        location |-> [lat |-> 5, lng |-> 3],
        description |-> <<"o", "k">> ],
      [ reporterName |-> <<"B">>, reporterRole |-> "official",
        hazardType |-> <<"L", "o">>, severity |-> "low",
        location |-> [lat |-> 8, lng |-> 7],
        description |-> <<>> ] }

\* What is typed into the search field and chosen in the selects.
SearchTerms == { <<>>, <<"a">>, <<"L", "O">> }
StatusFilters == { "all", "verified" }
SeverityFilters == { "all", "high" }
StatusChoices == { "verified" }

\* The calls awaited by the page.
adminLoadsInFlight == BagCardinality(adminLoads)
AdminCallsInFlight ==
    BagCardinality(adminLoads) + BagCardinality(adminUpdates)
        + Len(authSubmitted)

\* A call joins the calls awaited, or leaves them.
Awaiting(calls, call) == calls (+) SetToBag({call})
Settled(calls, call) == calls (-) SetToBag({call})

authVars == <<password, authIsLoading, authError, authSubmitted>>
adminFilterVars == <<searchTerm, statusFilter, severityFilter>>
outsideAdmin ==
    <<reports, hotspots, reportsB, hotspotsB, detailVars, dashVars,
      formVars, dashLoadVars>>

\* AdminDashboard.tsx 189-191.
adminView == IF ~isAuthenticated THEN "AdminAuth" ELSE "dashboard"

\* String.prototype.toLowerCase, on the letters that occur.
LowerOf(c) ==
    CASE c = "A" -> "a"
      [] c = "B" -> "b"
      [] c = "H" -> "h"
      [] c = "L" -> "l"
      [] c = "O" -> "o"
      [] OTHER -> c
toLowerCase(str) == [ i \in DOMAIN str |-> LowerOf(str[i]) ]

\* String.prototype.includes.
includes(str, part) ==
    \E k \in 0..(Len(str) - Len(part)) :
        SubSeq(str, k + 1, k + Len(part)) = part

\* AdminDashboard.tsx 73-77: the callback of the search filter.
MatchesSearchCaseSensitive(report, term) ==
    \/ includes(report.reporterName, term)
    \/ includes(report.hazardType, term)
    \/ includes(report.description, term)
MatchesSearch(report, term) ==
    \/ includes(toLowerCase(report.reporterName), toLowerCase(term))
    \/ includes(toLowerCase(report.hazardType), toLowerCase(term))
    \/ includes(toLowerCase(report.description), toLowerCase(term))

\* AdminDashboard.tsx 69-88: `filtered` of the filter effect.
AdminFiltered(rs, term, status, severity_) ==
    LET bySearch ==
            IF term # <<>>
            THEN SelectSeq(rs, LAMBDA r : MatchesSearch(r, term))
            ELSE rs
        byStatus ==
            IF status # "all"
            THEN SelectSeq(bySearch, LAMBDA r : r.status = status)
            ELSE bySearch
    IN  IF severity_ # "all"
        THEN SelectSeq(byStatus, LAMBDA r : r.severity = severity_)
        ELSE byStatus

\* AdminDashboard.tsx 68-91: the filter effect, which runs after a render
\* in which reports, searchTerm, statusFilter or severityFilter changed and
\* before any other event is handled.
RunFilterEffect ==
    /\ adminEffectPending
    /\ adminFilteredReports'
         = AdminFiltered(adminReports, searchTerm, statusFilter,
                         severityFilter)
    /\ adminEffectPending' = FALSE
    /\ UNCHANGED <<isAuthenticated, authVars, adminReports, adminLoading,
                   adminRefreshing, adminLoads, adminUpdates, adminToast,
                   adminFilterVars>>
    /\ UNCHANGED <<outsideAdmin, storeVars>>

\* part_000 269: onChange of the password field.
TypePassword(v) ==
    /\ ~adminEffectPending
    /\ adminView = "AdminAuth"
    /\ v # password
    /\ password' = v
    /\ UNCHANGED <<isAuthenticated, authIsLoading, authError, authSubmitted,
                   adminReports, adminLoading, adminRefreshing,
                   adminLoads, adminUpdates, adminToast, adminFilterVars,
                   adminFilteredReports, adminEffectPending>>
    /\ UNCHANGED <<outsideAdmin, storeVars>>

\* part_000 212-219: handleSubmit up to its await.  The submit button is
\* disabled while isLoading or while the password is blank (line 299).
AuthSubmit ==
    /\ ~adminEffectPending
    /\ adminView = "AdminAuth"
    /\ ~authIsLoading
    /\ Trim(password) # <<>>
    /\ AdminCallsInFlight < MaxLoadsInFlight
    /\ authIsLoading' = TRUE
    /\ authError' = ""
    /\ authSubmitted' = <<password>>
    /\ UNCHANGED <<isAuthenticated, password, adminReports, adminLoading,
                   adminRefreshing, adminLoads, adminUpdates, adminToast,
                   adminFilterVars, adminFilteredReports,
                   adminEffectPending>>
    /\ UNCHANGED <<outsideAdmin, storeVars>>

\* AdminDashboard.tsx 43-46: loadAllReports up to its await; the snapshot
\* of the collection is not read yet.
NewLoad == [snapshot |-> <<>>]

\* part_000 221-244: handleSubmit after the delay.  On success
\* onAuthSuccess sets isAuthenticated (AdminDashboard.tsx 190), AdminAuth is
\* unmounted and the effect of AdminDashboard.tsx 62-66 starts
\* loadAllReports (line 45 sets loading).  The awaited timer never rejects,
\* so the catch of lines 235-241 is not reached.
AuthResolveReadsField ==
    /\ ~adminEffectPending
    /\ authSubmitted # <<>>
    /\ IF password = ADMIN_PASSWORD
       THEN /\ isAuthenticated' = TRUE
            /\ password' = <<>>
            /\ authIsLoading' = FALSE
            /\ authError' = ""
            /\ adminLoading' = TRUE
            /\ adminLoads' = Awaiting(adminLoads, NewLoad)
       ELSE /\ authError' = "Invalid admin password. Please try again."
            /\ authIsLoading' = FALSE
            /\ UNCHANGED <<isAuthenticated, password, adminLoading,
                           adminLoads>>
    /\ authSubmitted' = <<>>
    /\ UNCHANGED <<adminReports, adminRefreshing, adminUpdates, adminToast,
                   adminFilterVars, adminFilteredReports,
                   adminEffectPending>>
    /\ UNCHANGED <<outsideAdmin, storeVars>>
AuthResolve ==
    /\ ~adminEffectPending
    /\ authSubmitted # <<>>
    /\ IF authSubmitted[1] = ADMIN_PASSWORD
       THEN /\ isAuthenticated' = TRUE
            /\ password' = <<>>
            /\ authIsLoading' = FALSE
            /\ authError' = ""
            /\ adminLoading' = TRUE
            /\ adminLoads' = Awaiting(adminLoads, NewLoad)
       ELSE /\ authError' = "Invalid admin password. Please try again."
            /\ authIsLoading' = FALSE
            /\ UNCHANGED <<isAuthenticated, password, adminLoading,
                           adminLoads>>
    /\ authSubmitted' = <<>>
    /\ UNCHANGED <<adminReports, adminRefreshing, adminUpdates, adminToast,
                   adminFilterVars, adminFilteredReports,
                   adminEffectPending>>
    /\ UNCHANGED <<outsideAdmin, storeVars>>

\* AdminDashboard.tsx 238-245: the Exit Admin button.  AdminAuth is mounted
\* anew, with its initial state.
ExitAdmin ==
    /\ ~adminEffectPending
    /\ adminView = "dashboard"
    /\ isAuthenticated' = FALSE
    /\ UNCHANGED <<authVars, adminReports, adminLoading, adminRefreshing,
                   adminLoads, adminUpdates, adminToast, adminFilterVars,
                   adminFilteredReports, adminEffectPending>>
    /\ UNCHANGED <<outsideAdmin, storeVars>>

\* AdminDashboard.tsx 93-96 and 217-229: the Refresh button, disabled
\* while refreshing.
AdminRefresh ==
    /\ ~adminEffectPending
    /\ adminView = "dashboard"
    /\ ~adminRefreshing
    /\ AdminCallsInFlight < MaxLoadsInFlight
    /\ adminRefreshing' = TRUE
    /\ adminLoading' = TRUE
    /\ adminLoads' = Awaiting(adminLoads, NewLoad)
    /\ UNCHANGED <<isAuthenticated, authVars, adminReports, adminUpdates,
                   adminToast, adminFilterVars, adminFilteredReports,
                   adminEffectPending>>
    /\ UNCHANGED <<outsideAdmin, storeVars>>

\* hazardService.ts 177: getDocs reads the collection, at some time between
\* the call and its result.
getDocsReads(load) ==
    /\ ~adminEffectPending
    /\ BagIn(load, adminLoads)
    /\ load.snapshot = <<>>
    /\ adminLoads' = Awaiting(Settled(adminLoads, load),
                              [snapshot |-> << getAllReports(store) >>])
    /\ UNCHANGED <<isAuthenticated, authVars, adminReports, adminLoading,
                   adminRefreshing, adminUpdates, adminToast,
                   adminFilterVars, adminFilteredReports,
                   adminEffectPending>>
    /\ UNCHANGED <<outsideAdmin, storeVars>>

\* AdminDashboard.tsx 46-48 and 56-58: getAllReports resolved for the load;
\* reports changes, so the filter effect will run.
AdminLoadSucceeds(load) ==
    /\ ~adminEffectPending
    /\ BagIn(load, adminLoads)
    /\ load.snapshot # <<>>
    /\ adminReports' = load.snapshot[1]
    /\ adminFilteredReports' = load.snapshot[1]
    /\ adminEffectPending' = TRUE
    /\ adminLoading' = FALSE
    /\ adminRefreshing' = FALSE
    /\ adminLoads' = Settled(adminLoads, load)
    /\ UNCHANGED <<isAuthenticated, authVars, adminUpdates, adminToast,
                   adminFilterVars>>
    /\ UNCHANGED <<outsideAdmin, storeVars>>

\* AdminDashboard.tsx 49-58: getAllReports rejected for the load i.
AdminLoadFails(load) ==
    /\ ~adminEffectPending
    /\ BagIn(load, adminLoads)
    /\ adminToast' = "Failed to load reports. Please try again."
    /\ adminLoading' = FALSE
    /\ adminRefreshing' = FALSE
    /\ adminLoads' = Settled(adminLoads, load)
    /\ UNCHANGED <<isAuthenticated, authVars, adminReports, adminUpdates,
                   adminFilterVars, adminFilteredReports,
                   adminEffectPending>>
    /\ UNCHANGED <<outsideAdmin, storeVars>>

\* AdminDashboard.tsx 315, 322 and 336: the search field and the selects.
setSearchTerm(v) ==
    /\ ~adminEffectPending
    /\ adminView = "dashboard"
    /\ v # searchTerm
    /\ searchTerm' = v
    /\ adminEffectPending' = TRUE
    /\ UNCHANGED <<isAuthenticated, authVars, adminReports, adminLoading,
                   adminRefreshing, adminLoads, adminUpdates, adminToast,
                   statusFilter, severityFilter, adminFilteredReports>>
    /\ UNCHANGED <<outsideAdmin, storeVars>>
setStatusFilter(v) ==
    /\ ~adminEffectPending
    /\ adminView = "dashboard"
    /\ v # statusFilter
    /\ statusFilter' = v
    /\ adminEffectPending' = TRUE
    /\ UNCHANGED <<isAuthenticated, authVars, adminReports, adminLoading,
                   adminRefreshing, adminLoads, adminUpdates, adminToast,
                   searchTerm, severityFilter, adminFilteredReports>>
    /\ UNCHANGED <<outsideAdmin, storeVars>>
setSeverityFilter(v) ==
    /\ ~adminEffectPending
    /\ adminView = "dashboard"
    /\ v # severityFilter
    /\ severityFilter' = v
    /\ adminEffectPending' = TRUE
    /\ UNCHANGED <<isAuthenticated, authVars, adminReports, adminLoading,
                   adminRefreshing, adminLoads, adminUpdates, adminToast,
                   searchTerm, statusFilter, adminFilteredReports>>
    /\ UNCHANGED <<outsideAdmin, storeVars>>

\* AdminDashboard.tsx 98-100 and 443-446: handleStatusChange up to its
\* await, called by the select of row k of the table; the table is shown
\* when loading is false (lines 368-398).
handleStatusChange(k, newStatus) ==
    /\ ~adminEffectPending
    /\ adminView = "dashboard"
    /\ ~adminLoading
    /\ k \in DOMAIN adminFilteredReports
    /\ AdminCallsInFlight < MaxLoadsInFlight
    /\ adminUpdates' = Awaiting(adminUpdates,
                                [ reportId |-> adminFilteredReports[k].id,
                                  status |-> newStatus ])
    /\ UNCHANGED <<isAuthenticated, authVars, adminReports, adminLoading,
                   adminRefreshing, adminLoads, adminToast, adminFilterVars,
                   adminFilteredReports, adminEffectPending>>
    /\ UNCHANGED <<outsideAdmin, storeVars>>

\* hazardService.ts 210-216 and AdminDashboard.tsx 100-105:
\* updateReportStatus resolved for the call; the toast is shown and
\* loadAllReports starts (line 45 sets loading).
StatusUpdateSucceeds(call) ==
    /\ ~adminEffectPending
    /\ BagIn(call, adminUpdates)
    /\ DocExists(store, call.reportId)
    /\ clock < MaxClock
    /\ store' = updateReportStatus(store, call.reportId,
                                   call.status, clock + 1)
    /\ clock' = clock + 1
    /\ adminToast' = "Status Updated"
    /\ adminLoading' = TRUE
    /\ adminLoads' = Awaiting(adminLoads, NewLoad)
    /\ adminUpdates' = Settled(adminUpdates, call)
    /\ UNCHANGED <<isAuthenticated, authVars, adminReports, adminRefreshing,
                   adminFilterVars, adminFilteredReports,
                   adminEffectPending>>
    /\ UNCHANGED outsideAdmin

\* hazardService.ts 217-220 and AdminDashboard.tsx 106-113:
\* updateReportStatus rejected for the call.
StatusUpdateFailsAndReloads(call) ==
    /\ ~adminEffectPending
    /\ BagIn(call, adminUpdates)
    /\ adminToast' = "Failed to update report status."
    /\ adminLoading' = TRUE
    /\ adminLoads' = Awaiting(adminLoads, NewLoad)
    /\ adminUpdates' = Settled(adminUpdates, call)
    /\ UNCHANGED <<isAuthenticated, authVars, adminReports, adminRefreshing,
                   adminFilterVars, adminFilteredReports,
                   adminEffectPending>>
    /\ UNCHANGED <<outsideAdmin, storeVars>>
StatusUpdateFails(call) ==
    /\ ~adminEffectPending
    /\ BagIn(call, adminUpdates)
    /\ adminToast' = "Failed to update report status."
    /\ adminUpdates' = Settled(adminUpdates, call)
    /\ UNCHANGED <<isAuthenticated, authVars, adminReports, adminLoading,
                   adminRefreshing, adminLoads, adminFilterVars,
                   adminFilteredReports, adminEffectPending>>
    /\ UNCHANGED <<outsideAdmin, storeVars>>

\* hazardService.ts 210-216: an updateReportStatus call of another session
\* succeeds.
StatusUpdatedElsewhere(reportId, status) ==
    /\ ~adminEffectPending
    /\ DocExists(store, reportId)
    /\ clock < MaxClock
    /\ store' = updateReportStatus(store, reportId, status, clock + 1)
    /\ clock' = clock + 1
    /\ UNCHANGED adminVars
    /\ UNCHANGED outsideAdmin

\* hazardService.ts 22-49: a client's saveHazardReport call succeeds.
ClientSavesReport(formData_, userId) ==
    /\ ~adminEffectPending
    /\ Len(store) < MaxStored
    /\ clock < MaxClock
    /\ store' = saveHazardReport(store, formData_, userId, clock + 1)
    /\ clock' = clock + 1
    /\ UNCHANGED adminVars
    /\ UNCHANGED outsideAdmin

\* The gate: every password, Exit Admin, and the calls that start loads
\* (the failures of these calls are in the specifications below).
NextAdmin ==
    \/ \E v \in PasswordInputs : TypePassword(v)
    \/ AuthSubmit
    \/ AuthResolve
    \/ ExitAdmin
    \/ AdminRefresh
    \/ \E load \in BagToSet(adminLoads) : getDocsReads(load)
    \/ \E load \in BagToSet(adminLoads) : AdminLoadSucceeds(load)
    \/ RunFilterEffect
    \/ \E k \in 1..MaxStored, v \in StatusChoices : handleStatusChange(k, v)
    \/ \E call \in BagToSet(adminUpdates) : StatusUpdateSucceeds(call)
    \/ \E f \in { x \in ClientForms : x.severity = "high" }, u \in Users :
          ClientSavesReport(f, u)

SpecAdmin == Init /\ [][NextAdmin]_vars

\* The admin changes the status of reports, refreshes, and clients save
\* reports meanwhile.
NextAdminStatus ==
    \/ TypePassword(ADMIN_PASSWORD)
    \/ AuthSubmit
    \/ AuthResolve
    \/ AdminRefresh
    \/ \E load \in BagToSet(adminLoads) : getDocsReads(load)
    \/ \E load \in BagToSet(adminLoads) : AdminLoadSucceeds(load)
    \/ \E load \in BagToSet(adminLoads) : AdminLoadFails(load)
    \/ RunFilterEffect
    \/ \E k \in 1..MaxStored, v \in StatusChoices : handleStatusChange(k, v)
    \/ \E call \in BagToSet(adminUpdates) : StatusUpdateSucceeds(call)
    \/ \E call \in BagToSet(adminUpdates) : StatusUpdateFails(call)
    \/ \E f \in ClientForms, u \in Users : ClientSavesReport(f, u)

SpecAdminStatus == Init /\ [][NextAdminStatus]_vars

\* The admin searches and filters the reports that are loaded, while
\* clients save reports and statuses are updated from another session.
NextAdminFilter ==
    \/ TypePassword(ADMIN_PASSWORD)
    \/ AuthSubmit
    \/ AuthResolve
    \/ AdminRefresh
    \/ \E load \in BagToSet(adminLoads) : getDocsReads(load)
    \/ \E load \in BagToSet(adminLoads) : AdminLoadSucceeds(load)
    \/ \E load \in BagToSet(adminLoads) : AdminLoadFails(load)
    \/ RunFilterEffect
    \/ \E v \in SearchTerms : setSearchTerm(v)
    \/ \E v \in StatusFilters : setStatusFilter(v)
    \/ \E v \in SeverityFilters : setSeverityFilter(v)
    \/ \E k \in 1..MaxStored, v \in StatusChoices :
          StatusUpdatedElsewhere(k, v)
    \/ \E f \in ClientForms, u \in Users : ClientSavesReport(f, u)

SpecAdminFilter == Init /\ [][NextAdminFilter]_vars

(***************************************************************************)
(* The ReportHazard page (src/src/pages/ReportHazard.tsx).                 *)
(***************************************************************************)
\* What is typed into the name and description fields.
TextInputs == { <<>>, <<" ">>, <<"A">> }

\* What the selects offer (lines 232-278): a select never goes back to ''.
RoleOptions == { "citizen" }
HazardTypeOptions == { "High Waves" }
SeverityOptions == { "high" }

\* Positions that the browser reports, in hundredths of a degree.
Positions == { [lat |-> 5, lng |-> 3], [lat |-> 8, lng |-> 7] }

\* Lines 98-150: the description of the toast of the first failing check,
\* "" when every check passes.
ValidateSkipsDescription(fd, user) ==
    IF Trim(fd.reporterName) = <<>> THEN "Please enter your name."
    ELSE IF fd.reporterRole = "" THEN "Please select your role."
    ELSE IF fd.hazardType = "" THEN "Please select a hazard type."
    ELSE IF fd.severity = "" THEN "Please select severity level."
    ELSE IF user = <<>> THEN "Please log in to submit a report."
    ELSE ""
Validate(fd, user) ==
    IF Trim(fd.reporterName) = <<>> THEN "Please enter your name."
    ELSE IF fd.reporterRole = "" THEN "Please select your role."
    ELSE IF fd.hazardType = "" THEN "Please select a hazard type."
    ELSE IF fd.severity = "" THEN "Please select severity level."
    ELSE IF Trim(fd.description) = <<>> THEN "Please provide a description."
    ELSE IF user = <<>> THEN "Please log in to submit a report."
    ELSE ""

outsideForm ==
    <<reports, hotspots, reportsB, hotspotsB, detailVars, dashVars,
      adminVars, dashLoadVars>>

\* Lines 87-92, called by the fields of lines 227, 232, 251, 266 and 319.
handleInputChange(field, value) ==
    /\ formData[field] # value
    /\ formData' = [formData EXCEPT ![field] = value]
    /\ UNCHANGED <<location, isSubmitting, currentUser, saveInFlight,
                   toastShown>>
    /\ UNCHANGED <<outsideForm, storeVars>>

\* Lines 58-85: the position callback of getCurrentPosition.
handleGetLocation(newLocation) ==
    /\ location' = <<newLocation>>
    /\ formData' = [formData EXCEPT !.location = newLocation]
    /\ toastShown' = "Your current location has been captured."
    /\ UNCHANGED <<isSubmitting, currentUser, saveInFlight>>
    /\ UNCHANGED <<outsideForm, storeVars>>

\* Lines 75-81: the error callback of getCurrentPosition.
handleGetLocationError ==
    /\ toastShown'
         = "Unable to get your location. Please enter manually."
    /\ UNCHANGED <<formData, location, isSubmitting, currentUser,
                   saveInFlight>>
    /\ UNCHANGED <<outsideForm, storeVars>>

\* Line 39: useAuth().currentUser becomes a user.
UserLogsIn(u) ==
    /\ currentUser = <<>>
    /\ currentUser' = <<u>>
    /\ UNCHANGED <<formData, location, isSubmitting, saveInFlight,
                   toastShown>>
    /\ UNCHANGED <<outsideForm, storeVars>>

\* part_000 23-30: Navigation.handleLogout; currentUser becomes null.
UserLogsOut ==
    /\ currentUser # <<>>
    /\ currentUser' = <<>>
    /\ UNCHANGED <<formData, location, isSubmitting, saveInFlight,
                   toastShown>>
    /\ UNCHANGED <<outsideForm, storeVars>>

\* Lines 94-160: handleSubmit up to its await.  The submit button is
\* disabled while isSubmitting (line 345).
handleSubmit ==
    /\ ~isSubmitting
    /\ IF Validate(formData, currentUser) # ""
       THEN /\ toastShown' = Validate(formData, currentUser)
            /\ UNCHANGED <<isSubmitting, saveInFlight>>
       ELSE /\ isSubmitting' = TRUE
            /\ saveInFlight'
                 = << [ formData |-> formData, uid |-> currentUser[1] ] >>
            /\ UNCHANGED toastShown
    /\ UNCHANGED <<formData, location, currentUser>>
    /\ UNCHANGED <<outsideForm, storeVars>>

\* Lines 156-177 and 186-188: saveHazardReport resolved, after it has added
\* the report to the collection (hazardService.ts 43-49).
SaveSucceeds ==
    /\ saveInFlight # <<>>
    /\ Len(store) < MaxStored
    /\ clock < MaxClock
    /\ store' = saveHazardReport(store, saveInFlight[1].formData,
                                 saveInFlight[1].uid, clock + 1)
    /\ clock' = clock + 1
    /\ toastShown' = "Report submitted successfully"
    /\ formData' = EmptyForm
    /\ location' = <<>>
    /\ isSubmitting' = FALSE
    /\ saveInFlight' = <<>>
    /\ UNCHANGED currentUser
    /\ UNCHANGED outsideForm

\* Lines 179-188: saveHazardReport rejected.
SaveFailsResetsForm ==
    /\ saveInFlight # <<>>
    /\ toastShown' = "Failed to submit your report. Please try again."
    /\ formData' = EmptyForm
    /\ location' = <<>>
    /\ isSubmitting' = FALSE
    /\ saveInFlight' = <<>>
    /\ UNCHANGED currentUser
    /\ UNCHANGED <<outsideForm, storeVars>>
SaveFails ==
    /\ saveInFlight # <<>>
    /\ toastShown' = "Failed to submit your report. Please try again."
    /\ isSubmitting' = FALSE
    /\ saveInFlight' = <<>>
    /\ UNCHANGED <<formData, location, currentUser>>
    /\ UNCHANGED <<outsideForm, storeVars>>

NextReport ==
    \/ \E v \in TextInputs : handleInputChange("reporterName", v)
    \/ \E v \in RoleOptions : handleInputChange("reporterRole", v)
    \/ \E v \in HazardTypeOptions : handleInputChange("hazardType", v)
    \/ \E v \in SeverityOptions : handleInputChange("severity", v)
    \/ \E v \in TextInputs : handleInputChange("description", v)
    \/ \E l \in Positions : handleGetLocation(l)
    \/ handleGetLocationError
    \/ \E u \in Users : UserLogsIn(u)
    \/ UserLogsOut
    \/ handleSubmit
    \/ SaveSucceeds
    \/ SaveFails

SpecReport == Init /\ [][NextReport]_vars

(***************************************************************************)
(* Vocabulary of the properties: the geometry of the grid and the severity *)
(* order, stated without the operators that model calculateHotspots.       *)
(***************************************************************************)
\* Lower-left corners of the cells that cover the coordinates in use.
GridCells == { <<a * 10, b * 10>> : a \in -3..2, b \in -3..2 }

\* The report lies in the cell [c[1], c[1]+10) x [c[2], c[2]+10).
InCell(r, c) ==
    /\ c[1] <= r.lat /\ r.lat < c[1] + 10
    /\ c[2] <= r.lng /\ r.lng < c[2] + 10

\* The reports of rs that lie in the cell with corner c, in order.
ReportsInCell(rs, c) == SelectSeq(rs, LAMBDA r : InCell(r, c))

CountInCell(rs, c) == Cardinality({ i \in DOMAIN rs : InCell(rs[i], c) })

\* The cell a hotspot stands for: its center is the middle of the cell.
CellOfHotspot(h) == <<h.lat - 5, h.lng - 5>>

\* floor(x / 0.1): the integer k with k * 0.1 <= x < (k + 1) * 0.1.
FloorIndex(x) == CHOOSE k \in -3..2 : k * 10 <= x /\ x < (k + 1) * 10

Rank(s) ==
    CASE s = "low" -> 1 [] s = "medium" -> 2 [] s = "high" -> 3
      [] s = "critical" -> 4

SeveritiesIn(rs) == { rs[i].severity : i \in DOMAIN rs }

HighestPresent(rs) ==
    CHOOSE s \in SeveritiesIn(rs) : \A t \in SeveritiesIn(rs) : Rank(t) <= Rank(s)

CountOf(rs, x) == Cardinality({ i \in DOMAIN rs : rs[i] = x })

IsPermutation(s, t) ==
    /\ Len(s) = Len(t)
    /\ \A x \in Range(s) \cup Range(t) : CountOf(s, x) = CountOf(t, x)

(***************************************************************************)
(* C1.  When calculateHotspots has computed a hotspot set for the current  *)
(* collection, the set has a hotspot for a grid cell if and only if the    *)
(* cell holds at least 2 reports of the collection; a cell with a single   *)
(* report has none, and every hotspot has intensity >= 2.                  *)
(***************************************************************************)
C1_HotspotIffMinReports ==
    Len(reports) > 0 =>
        /\ \A c \in GridCells :
              (\E i \in DOMAIN hotspots : CellOfHotspot(hotspots[i]) = c)
                  <=> CountInCell(reports, c) >= 2
        /\ \A i \in DOMAIN hotspots :
              /\ CellOfHotspot(hotspots[i]) \in GridCells
              /\ hotspots[i].intensity >= 2

\* One cell holds exactly 2 reports and has the only hotspot, another cell
\* holds a single report.
C1_Witness ==
    /\ Len(reports) = 3
    /\ Len(hotspots) = 1
    /\ \E c \in GridCells : CountInCell(reports, c) = 1
    /\ \E c \in GridCells : CountInCell(reports, c) = 2

(***************************************************************************)
(* C2.  After every change of the collection the held hotspot set is the   *)
(* full recomputation (lines 199-231) over the current collection.         *)
(***************************************************************************)
C2_HeldIsFullRecomputation == hotspots = BuiltHotspots(reports)

(***************************************************************************)
(* C3.  For an empty report collection the hotspot set is empty.           *)
(***************************************************************************)
C3_EmptyYieldsEmpty == Len(reports) = 0 => Len(hotspots) = 0

(***************************************************************************)
(* C4.  Every hotspot has radius min(intensity * 2000, 10000): never more  *)
(* than 10000, and exactly 10000 from intensity 5 on.                      *)
(***************************************************************************)
C4_RadiusCapped ==
    \A i \in DOMAIN hotspots :
        LET h == hotspots[i] IN
        /\ h.radius = (IF h.intensity * 2000 <= 10000
                       THEN h.intensity * 2000 ELSE 10000)
        /\ h.radius <= 10000
        /\ (h.intensity >= 5 => h.radius = 10000)

\* A hotspot of 6 reports, whose uncapped radius would be 12000, next to
\* nothing else: the cap is what decides its radius.
C4_Witness ==
    \E i \in DOMAIN hotspots :
        hotspots[i].intensity = 6 /\ hotspots[i].radius = 10000

(***************************************************************************)
(* C5.  When the collection is replaced by a permutation of itself, the    *)
(* set of hotspots (center, intensity, radius, count) stays the same.      *)
(***************************************************************************)
C5_OrderIndependent ==
    [][ IsPermutation(reports, reports')
            => Range(hotspots') = Range(hotspots) ]_vars

\* Two hotspots are held and exchanging two neighbouring reports changes
\* the order in which the hotspots are emitted.
C5_Witness ==
    /\ Len(hotspots) = 2
    /\ \E i \in 1..(Len(reports) - 1) :
          /\ reports[i] # reports[i + 1]
          /\ BuiltHotspots(SwapAt(reports, i)) # hotspots

(***************************************************************************)
(* C6.  Two mounts that hold the same current collection hold the same     *)
(* hotspot set, whatever collections each has been given before.           *)
(***************************************************************************)
C6_SameCollectionSameHotspots ==
    reports = reportsB => Range(hotspots) = Range(hotspotsB)

(***************************************************************************)
(* C7.  The grid holds one cell per occupied 0.1-degree square; the corner *)
(* of a cell is a multiple of 0.1 not above the coordinates of its reports *)
(* (floor, also for negative coordinates); a cell collects exactly the     *)
(* reports lying in its square, and two reports share a cell if and only   *)
(* if their floored latitudes and floored longitudes are equal.            *)
(***************************************************************************)
C7_CellAssignment ==
    LET grid == BuildGrid(reports) IN
    /\ \A i \in DOMAIN grid :
          /\ grid[i].key \in GridCells
          /\ grid[i].reports = ReportsInCell(reports, grid[i].key)
          /\ Len(grid[i].reports) > 0
    /\ \A i, j \in DOMAIN grid : i # j => grid[i].key # grid[j].key
    /\ \A k \in DOMAIN reports :
          \E i \in DOMAIN grid :
              grid[i].key = <<FloorIndex(reports[k].lat) * 10,
                              FloorIndex(reports[k].lng) * 10>>
    /\ \A k, l \in DOMAIN reports :
          (\E i \in DOMAIN grid :
              {reports[k], reports[l]} \subseteq Range(grid[i].reports))
          <=> /\ FloorIndex(reports[k].lat) = FloorIndex(reports[l].lat)
              /\ FloorIndex(reports[k].lng) = FloorIndex(reports[l].lng)

\* A report with negative coordinates in a cell of its own, and two
\* reports at different places of one other cell.
C7_Witness ==
    /\ Len(BuildGrid(reports)) = 2
    /\ \E k, l, m \in DOMAIN reports :
          /\ reports[k].lat < 0 /\ reports[k].lng < 0
          /\ reports[l].lat # reports[m].lat
          /\ FloorIndex(reports[l].lat) = FloorIndex(reports[m].lat)
          /\ FloorIndex(reports[l].lng) = FloorIndex(reports[m].lng)

(***************************************************************************)
(* C8.  reportCount equals intensity in every hotspot, and the intensity   *)
(* of a hotspot computed for the current collection is the number of the   *)
(* collection's reports that lie in the hotspot's cell.                    *)
(***************************************************************************)
C8_IntensityIsCellCount ==
    /\ \A i \in DOMAIN hotspots : hotspots[i].reportCount = hotspots[i].intensity
    /\ Len(reports) > 0 =>
          \A i \in DOMAIN hotspots :
              hotspots[i].intensity
                  = Len(ReportsInCell(reports, CellOfHotspot(hotspots[i])))

\* Two hotspots of different intensity, and a report outside both cells'
\* count: the intensity is a count per cell, not of the collection.
C8_Witness ==
    /\ Len(hotspots) = 2
    /\ hotspots[1].intensity # hotspots[2].intensity
    /\ hotspots[1].intensity < Len(reports)

(***************************************************************************)
(* C9.  Every hotspot carries a dominantSeverity: critical if a report of  *)
(* its cell is critical, otherwise high if one is high, otherwise medium.  *)
(***************************************************************************)
C9_HotspotCarriesDominantSeverity ==
    \A i \in DOMAIN hotspots :
        LET contributing == ReportsInCell(reports, CellOfHotspot(hotspots[i]))
        IN  /\ "dominantSeverity" \in DOMAIN hotspots[i]
            /\ hotspots[i].dominantSeverity =
                  (IF "critical" \in SeveritiesIn(contributing) THEN "critical"
                   ELSE IF "high" \in SeveritiesIn(contributing) THEN "high"
                   ELSE "medium")

(***************************************************************************)
(* C10 as stated.  The severity computed for a qualifying cell is the      *)
(* highest-ranked severity present among the cell's reports.               *)
(***************************************************************************)
C10_HighestPresentSeverity ==
    LET grid == BuildGrid(reports) IN
    \A i \in DOMAIN grid :
        Len(grid[i].reports) >= 2 =>
            severity(grid[i].reports) = HighestPresent(grid[i].reports)

(***************************************************************************)
(* C10 amended.  The severity computed for a qualifying cell is the        *)
(* highest-ranked severity present among the cell's reports, except that   *)
(* it is medium when all of them are low.                                  *)
(***************************************************************************)
C10_HighestPresentOrMedium ==
    LET grid == BuildGrid(reports) IN
    \A i \in DOMAIN grid :
        Len(grid[i].reports) >= 2 =>
            severity(grid[i].reports) =
                (IF SeveritiesIn(grid[i].reports) = {"low"} THEN "medium"
                 ELSE HighestPresent(grid[i].reports))

\* A qualifying cell with only low reports next to a qualifying cell that
\* holds both a critical and a high report.
C10_Witness ==
    LET grid == BuildGrid(reports) IN
    /\ \E i \in DOMAIN grid :
          Len(grid[i].reports) >= 2 /\ SeveritiesIn(grid[i].reports) = {"low"}
    /\ \E i \in DOMAIN grid :
          {"critical", "high"} \subseteq SeveritiesIn(grid[i].reports)

(***************************************************************************)
(* C11.  While a report is selected, the lookup shows the first hotspot of *)
(* the held list whose distance to the report is strictly less than 0.05,  *)
(* and none exactly when no held hotspot is strictly within 0.05.          *)
(***************************************************************************)
C11_FirstWithinThreshold ==
    selectedReport # <<>> =>
        LET p == selectedReport[1]
            near == { i \in DOMAIN hotspots :
                        (hotspots[i].lat - p.lat) * (hotspots[i].lat - p.lat)
                          + (hotspots[i].lng - p.lng) * (hotspots[i].lng - p.lng)
                            < 25 }
        IN  IF near = {}
            THEN nearbyHotspot = [status |-> "none", hotspot |-> <<>>]
            ELSE \E i \in near :
                    /\ \A j \in near : i <= j
                    /\ nearbyHotspot =
                          [status |-> "found", hotspot |-> <<hotspots[i]>>]

\* The selected report lies at distance exactly 0.05 from a held hotspot
\* and the lookup shows none.
C11_Witness ==
    /\ selectedReport # <<>>
    /\ nearbyHotspot.status = "none"
    /\ \E i \in DOMAIN hotspots :
          (hotspots[i].lat - selectedReport[1].lat)
              * (hotspots[i].lat - selectedReport[1].lat)
            + (hotspots[i].lng - selectedReport[1].lng)
              * (hotspots[i].lng - selectedReport[1].lng) = 25

(***************************************************************************)
(* C15.  The effect that computes the hotspots and the renders that run    *)
(* the lookup leave the report collection and the selected report as they  *)
(* are: the collection changes only when the parent passes a new one, and  *)
(* a selected report is a report of the collection, field for field.       *)
(***************************************************************************)
C15_ReportsUntouched ==
    [][ /\ (effectPending /\ ~effectPending')
            => /\ reports' = reports
               /\ selectedReport' = selectedReport
               /\ reportsB' = reportsB /\ hotspotsB' = hotspotsB
        /\ ~(~effectPending /\ effectPending') => reports' = reports
        /\ selectedReport' # selectedReport
            => selectedReport' = <<>> \/ selectedReport'[1] \in Range(reports)
      ]_vars

\* The effect has computed a hotspot from three or more reports and the
\* lookup has found it for the selected report.
C15_Witness ==
    /\ ~effectPending
    /\ Len(reports) >= 3
    /\ Len(hotspots) >= 1
    /\ hotspots = BuiltHotspots(reports)
    /\ nearbyHotspot.status = "found"

(***************************************************************************)
(* C17.  For collections with finite, in-range coordinates the computation *)
(* leaves a list of hotspots whose fields are all numbers, and the lookup  *)
(* ends with a hotspot or with none and raises no error; it is not run     *)
(* while no report is selected.                                            *)
(***************************************************************************)
C17_NoError ==
    /\ nearbyHotspot.status \in {"hidden", "none", "found"}
    /\ nearbyHotspot.status = "hidden" <=> selectedReport = <<>>
    /\ DOMAIN hotspots = 1..Len(hotspots)
    /\ \A i \in DOMAIN hotspots :
          /\ DOMAIN hotspots[i]
                = {"lat", "lng", "intensity", "radius", "reportCount"}
          /\ \A f \in DOMAIN hotspots[i] : hotspots[i][f] \in Int
    /\ (~effectPending /\ Len(reports) > 0) => Len(hotspots) <= Len(reports)

\* Two hotspots are held, the panel shows the one found for the selected
\* report.
C17_Witness ==
    /\ ~effectPending
    /\ Len(hotspots) = 2
    /\ nearbyHotspot.status = "found"
    /\ nearbyHotspot.hotspot = <<hotspots[2]>>

(***************************************************************************)
(* C12.  The center of every hotspot is the middle of a grid cell (corner  *)
(* + 0.05 in both coordinates), and the centers computed for a collection  *)
(* are exactly the middles of the cells holding at least 2 reports,        *)
(* wherever in the cell the reports lie and however many there are.        *)
(***************************************************************************)
C12_CenterIsCellMidpoint ==
    /\ \A i \in DOMAIN hotspots :
          /\ (hotspots[i].lat - 5) % 10 = 0
          /\ (hotspots[i].lng - 5) % 10 = 0
    /\ Len(reports) > 0 =>
          { <<hotspots[i].lat, hotspots[i].lng>> : i \in DOMAIN hotspots }
            = { <<c[1] + 5, c[2] + 5>> :
                  c \in { d \in GridCells : CountInCell(reports, d) >= 2 } }

\* The only hotspot has center (0.05, 0.05) although its reports lie at
\* (0.05, 0.03) and (0.08, 0.07) and none lies at the center.
C12_Witness ==
    /\ Len(hotspots) = 1
    /\ hotspots[1].lat = 5 /\ hotspots[1].lng = 5
    /\ \E k, l \in DOMAIN reports :
          /\ reports[k].lat = 5 /\ reports[k].lng = 3
          /\ reports[l].lat = 8 /\ reports[l].lng = 7
    /\ \A k \in DOMAIN reports : <<reports[k].lat, reports[k].lng>> # <<5, 5>>

(***************************************************************************)
(* C13.  Among the hotspots computed for a collection, every report lies   *)
(* in the cell of at most one, a report whose cell holds fewer than 2      *)
(* reports lies in the cell of none, and the intensities add up to at most *)
(* the number of reports.                                                  *)
(***************************************************************************)
RECURSIVE SumOfIntensities(_)
SumOfIntensities(hs) ==
    IF Len(hs) = 0 THEN 0 ELSE Head(hs).intensity + SumOfIntensities(Tail(hs))

C13_AtMostOneHotspotPerReport ==
    Len(reports) > 0 =>
        /\ \A k \in DOMAIN reports :
              LET own == { i \in DOMAIN hotspots :
                             InCell(reports[k], CellOfHotspot(hotspots[i])) }
                  cell == <<FloorIndex(reports[k].lat) * 10,
                            FloorIndex(reports[k].lng) * 10>>
              IN  /\ Cardinality(own) <= 1
                  /\ CountInCell(reports, cell) < 2 => own = {}
        /\ SumOfIntensities(hotspots) <= Len(reports)

\* A hotspot is held and one report of the collection is alone in its
\* cell, so the intensities add up to less than the number of reports.
C13_Witness ==
    /\ Len(hotspots) >= 1
    /\ SumOfIntensities(hotspots) < Len(reports)
    /\ \E k \in DOMAIN reports :
          \A i \in DOMAIN hotspots :
              ~InCell(reports[k], CellOfHotspot(hotspots[i]))

(***************************************************************************)
(* C16.  With two mounts computing in any interleaving, a computation of   *)
(* one mount leaves the other mount's collection and hotspots unchanged    *)
(* and yields what it yields alone: the hotspots built from its own        *)
(* collection (the held ones when that collection is empty).               *)
(***************************************************************************)
C16_InterleavedRunsIndependent ==
    [][ /\ (reports' # reports \/ hotspots' # hotspots)
            => /\ reportsB' = reportsB /\ hotspotsB' = hotspotsB
               /\ hotspots' = IF Len(reports') = 0 THEN hotspots
                              ELSE BuiltHotspots(reports')
        /\ (reportsB' # reportsB \/ hotspotsB' # hotspotsB)
            => /\ reports' = reports /\ hotspots' = hotspots
               /\ hotspotsB' = IF Len(reportsB') = 0 THEN hotspotsB
                               ELSE BuiltHotspots(reportsB')
      ]_vars

\* Both mounts hold a hotspot, computed from different collections.
C16_Witness ==
    /\ Len(hotspots) >= 1
    /\ Len(hotspotsB) >= 1
    /\ hotspots # hotspotsB
    /\ reports # reportsB

(***************************************************************************)
(* C14.  On the Dashboard every hotspot of the map counts exactly the      *)
(* reports of its cell that pass the current filters, so a report the      *)
(* filters exclude contributes to no hotspot.                              *)
(***************************************************************************)
C14_HotspotsOfPassingReportsOnly ==
    \A i \in DOMAIN hotspots :
        hotspots[i].intensity =
            Cardinality({ k \in DOMAIN allReports :
                            /\ PassesMapFilters(allReports[k], mapFilters)
                            /\ InCell(allReports[k], CellOfHotspot(hotspots[i])) })

(***************************************************************************)
(* C18.  The dashboard is shown exactly while isAuthenticated is true and  *)
(* loadAllReports starts only then; isAuthenticated becomes true only when *)
(* a submission whose password is "admin@123" resolves; and Exit Admin     *)
(* leaves an empty password form with no submission under way, so the      *)
(* password has to be entered again.                                       *)
(***************************************************************************)
C18_AdminGate ==
    [][ /\ adminView' = "dashboard" <=> isAuthenticated'
        /\ (~isAuthenticated /\ isAuthenticated')
            => authSubmitted
                 = << <<"a", "d", "m", "i", "n", "@", "1", "2", "3">> >>
        /\ adminLoadsInFlight' > adminLoadsInFlight
            => \/ isAuthenticated'
               \/ BagCardinality(adminUpdates')
                    < BagCardinality(adminUpdates)
        /\ BagCardinality(adminUpdates') > BagCardinality(adminUpdates)
            => isAuthenticated /\ isAuthenticated'
        /\ (isAuthenticated /\ ~isAuthenticated')
            => /\ password' = <<>>
               /\ authSubmitted' = <<>>
               /\ ~authIsLoading'
      ]_vars

\* After a successful login, a completed load and Exit Admin, a wrong
\* password has been rejected.
C18_Witness ==
    /\ ~isAuthenticated
    /\ adminReports # <<>>
    /\ authError # ""
    /\ password # <<>>

\* The fields of the form that pass their checks.
NameGiven == Trim(formData.reporterName) # <<>>
DescriptionGiven == Trim(formData.description) # <<>>
RoleGiven == formData.reporterRole # ""
HazardTypeGiven == formData.hazardType # ""
SeverityGiven == formData.severity # ""
LoggedIn == currentUser # <<>>

ValidationToasts ==
    { "Please enter your name.", "Please select your role.",
      "Please select a hazard type.", "Please select severity level.",
      "Please provide a description.",
      "Please log in to submit a report." }

\* A step in which handleSubmit stops at a failing check.
SubmitRejected == toastShown' # toastShown /\ toastShown' \in ValidationToasts

\* A step in which handleSubmit starts a save.
SaveStarts == saveInFlight = <<>> /\ saveInFlight' # <<>>

\* A save starts only from a complete form of a logged-in user, with the
\* form data and the user as arguments; a rejected submission starts no
\* save and leaves isSubmitting false and the form data unchanged.
SubmitGuarded ==
    /\ SaveStarts
        => /\ NameGiven /\ DescriptionGiven /\ RoleGiven
           /\ HazardTypeGiven /\ SeverityGiven /\ LoggedIn
           /\ saveInFlight' = << [ formData |-> formData,
                                   uid |-> currentUser[1] ] >>
    /\ SubmitRejected
        => /\ ~(NameGiven /\ DescriptionGiven /\ RoleGiven
                /\ HazardTypeGiven /\ SeverityGiven /\ LoggedIn)
           /\ saveInFlight' = <<>> /\ saveInFlight = <<>>
           /\ ~isSubmitting' /\ ~isSubmitting
           /\ formData' = formData

(***************************************************************************)
(* C19 as stated.  handleSubmit starts a save only when name and           *)
(* description are non-blank, role, hazard type and severity are non-empty *)
(* and a user is logged in; otherwise it stops at the first failing check  *)
(* in the order name, description, role, hazard type, severity, user,      *)
(* starts no save and leaves isSubmitting false and the form unchanged.    *)
(***************************************************************************)
C19_ChecksInListedOrder ==
    [][ /\ SubmitGuarded
        /\ SubmitRejected
            => toastShown'
                 = IF ~NameGiven THEN "Please enter your name."
                   ELSE IF ~DescriptionGiven
                        THEN "Please provide a description."
                   ELSE IF ~RoleGiven THEN "Please select your role."
                   ELSE IF ~HazardTypeGiven
                        THEN "Please select a hazard type."
                   ELSE IF ~SeverityGiven
                        THEN "Please select severity level."
                   ELSE "Please log in to submit a report."
      ]_vars

(***************************************************************************)
(* C19 amended.  The same, with the checks in the order name, role,        *)
(* hazard type, severity, description, user: a blank description is        *)
(* reported only once role, hazard type and severity are chosen.           *)
(***************************************************************************)
C19_ChecksInFormOrder ==
    [][ /\ SubmitGuarded
        /\ SubmitRejected
            => toastShown'
                 = IF ~NameGiven THEN "Please enter your name."
                   ELSE IF ~RoleGiven THEN "Please select your role."
                   ELSE IF ~HazardTypeGiven
                        THEN "Please select a hazard type."
                   ELSE IF ~SeverityGiven
                        THEN "Please select severity level."
                   ELSE IF ~DescriptionGiven
                        THEN "Please provide a description."
                   ELSE "Please log in to submit a report."
      ]_vars

\* A submission with a name, no role and a blank description was rejected
\* for its role.
C19_Witness ==
    /\ toastShown = "Please select your role."
    /\ NameGiven /\ ~RoleGiven /\ ~DescriptionGiven
    /\ formData.description # <<>>
    /\ ~isSubmitting /\ saveInFlight = <<>>

(***************************************************************************)
(* C20.  The step in which a save succeeds resets the form data and the    *)
(* captured location to their initial empty values; the step in which a    *)
(* save fails leaves the form data and the captured location as they were. *)
(***************************************************************************)
C20_ResetOnlyOnSuccess ==
    [][ (saveInFlight # <<>> /\ saveInFlight' = <<>>)
          => \/ /\ toastShown' = "Report submitted successfully"
                /\ formData'
                     = [ reporterName |-> <<>>, reporterRole |-> "",
                         hazardType |-> "", severity |-> "",
                         location |-> [lat |-> 0, lng |-> 0],
                         description |-> <<>> ]
                /\ location' = <<>>
             \/ /\ toastShown'
                     = "Failed to submit your report. Please try again."
                /\ formData' = formData
                /\ location' = location
      ]_vars

\* A save has failed: the form still holds the submitted data and the
\* captured location.
C20_Witness ==
    /\ toastShown = "Failed to submit your report. Please try again."
    /\ ~isSubmitting /\ saveInFlight = <<>>
    /\ NameGiven /\ DescriptionGiven
    /\ location # <<>>
    /\ formData.location = location[1]

\* The admin page's steps, as the properties name them.
UpdateStarts ==
    BagCardinality(adminUpdates') > BagCardinality(adminUpdates)
UpdateSettles ==
    BagCardinality(adminUpdates') < BagCardinality(adminUpdates)
DocumentAdded == Len(store') > Len(store)

\* The documents that were stored before the step stay where they are, with
\* their ids.
DocumentsKept ==
    /\ Len(store') >= Len(store)
    /\ \A i \in DOMAIN store : store'[i].id = store[i].id

(***************************************************************************)
(* C21.  A document added to the collection by saveHazardReport has status *)
(* 'pending' and an empty mediaUrls list, whatever the form data; the      *)
(* status of a stored document changes only in a step in which an          *)
(* updateReportStatus call succeeds.                                       *)
(***************************************************************************)
C21_PendingUntilUpdated ==
    [][ /\ DocumentsKept
        /\ \A i \in DOMAIN store' :
              i > Len(store)
                => /\ store'[i].data.status = "pending"
                   /\ store'[i].data.mediaUrls = <<>>
        /\ \A i \in DOMAIN store :
              store'[i].data.status # store[i].data.status
                => /\ UpdateSettles
                   /\ adminToast' = "Status Updated"
      ]_vars

\* The report of an official with a blank description is stored as pending
\* next to a report that the admin has verified.
C21_Witness ==
    /\ Len(store) = 2
    /\ \E i \in DOMAIN store :
          /\ store[i].data.reporterRole = "official"
          /\ store[i].data.description = <<>>
          /\ store[i].data.status = "pending"
    /\ \E i \in DOMAIN store : store[i].data.status = "verified"

(***************************************************************************)
(* C22.  A successful updateReportStatus changes the status and updatedAt  *)
(* of the document with the given id and nothing else in the collection;   *)
(* a failed one changes neither the collection nor the state of the page   *)
(* that called it (it only learns of the failure).                         *)
(***************************************************************************)
C22_UpdateTouchesOneDocument ==
    [][ UpdateSettles
          => \/ /\ adminToast' = "Status Updated"
                /\ Len(store') = Len(store)
                /\ \E u \in BagToSet(adminUpdates) :
                     \A i \in DOMAIN store :
                        IF store[i].id = u.reportId
                        THEN /\ store'[i].data.status = u.status
                             /\ [ store'[i] EXCEPT
                                    !.data.status = store[i].data.status,
                                    !.data.updatedAt
                                        = store[i].data.updatedAt ]
                                  = store[i]
                        ELSE store'[i] = store[i]
             \/ /\ adminToast' = "Failed to update report status."
                /\ store' = store
                /\ UNCHANGED <<isAuthenticated, adminReports,
                               adminFilteredReports, adminLoading,
                               adminRefreshing, adminLoads, searchTerm,
                               statusFilter, severityFilter>>
      ]_vars

\* Of two stored reports one has been updated (status and updatedAt) and
\* the other is as it was created.
C22_Witness ==
    /\ Len(store) = 2
    /\ \E i, j \in DOMAIN store :
          /\ store[i].data.status = "verified"
          /\ store[i].data.updatedAt > store[i].data.createdAt
          /\ store[j].data.status = "pending"
          /\ store[j].data.updatedAt = store[j].data.createdAt

(***************************************************************************)
(* C23.  handleStatusChange starts no load when it is called; when its     *)
(* update succeeds it starts one load; when its update fails it starts no  *)
(* load and the displayed reports and filtered reports are unchanged.      *)
(***************************************************************************)
C23_ReloadOnlyAfterSuccess ==
    [][ /\ UpdateStarts => adminLoads' = adminLoads
        /\ (UpdateSettles /\ store' # store)
            => /\ BagCardinality(adminLoads')
                    = BagCardinality(adminLoads) + 1
               /\ adminLoading'
        /\ (UpdateSettles /\ store' = store)
            => /\ adminLoads' = adminLoads
               /\ adminLoading' = adminLoading
               /\ adminReports' = adminReports
               /\ adminFilteredReports' = adminFilteredReports
      ]_vars

\* A status update has failed: reports are displayed and no load is under
\* way.
C23_Witness ==
    /\ adminToast = "Failed to update report status."
    /\ adminLoads = EmptyBag
    /\ adminUpdates = EmptyBag
    /\ ~adminLoading
    /\ adminFilteredReports # <<>>

\* The reports that match the search term and the selected status and
\* severity.
MatchesFilters(r) ==
    /\ \/ includes(toLowerCase(r.reporterName), toLowerCase(searchTerm))
       \/ includes(toLowerCase(r.hazardType), toLowerCase(searchTerm))
       \/ includes(toLowerCase(r.description), toLowerCase(searchTerm))
    /\ statusFilter = "all" \/ r.status = statusFilter
    /\ severityFilter = "all" \/ r.severity = severityFilter

(***************************************************************************)
(* C24.  Once the filter effect has run, filteredReports is the sublist of *)
(* reports that match the search term (case-insensitive substring of       *)
(* reporter name, hazard type or description) and the selected status and  *)
(* severity; at all times every filtered report is one of reports.         *)
(***************************************************************************)
C24_FilteredIsMatchingSublist ==
    /\ ~adminEffectPending
        => adminFilteredReports = SelectSeq(adminReports, MatchesFilters)
    /\ \A k \in DOMAIN adminFilteredReports :
          \E i \in DOMAIN adminReports :
              adminReports[i] = adminFilteredReports[k]

\* The search for "LO" has kept the report whose hazard type is "Lo" and
\* dropped another one.
C24_Witness ==
    /\ ~adminEffectPending
    /\ searchTerm = <<"L", "O">>
    /\ Len(adminReports) = 2
    /\ Len(adminFilteredReports) = 1
    /\ adminFilteredReports[1].hazardType = <<"L", "o">>

(***************************************************************************)
(* C26.  After a status change has succeeded and every load and update in  *)
(* flight has completed, no load having failed since, the status displayed *)
(* for every report is the status stored for it, which is the status last  *)
(* written.                                                                *)
(***************************************************************************)
C26_DisplayedStatusIsLastWritten ==
    ( /\ adminToast = "Status Updated"
      /\ adminLoads = EmptyBag
      /\ adminUpdates = EmptyBag
      /\ ~adminEffectPending )
        => \A k \in DOMAIN adminReports :
              \E i \in DOMAIN store :
                  /\ store[i].id = adminReports[k].id
                  /\ store[i].data.status = adminReports[k].status

\* A loadDashboardData call ends in this step.
DashLoadEnds == Len(dashLoads') < Len(dashLoads)

\* The call i ends in this step with its three fetches fulfilled: two were
\* fulfilled before and the page now holds their results.
DashLoadCommits(i) ==
    /\ dashLoads' = RemoveAt(dashLoads, i)
    /\ Cardinality({ w \in {"recent", "all", "stats"} :
                        dashLoads[i][w] # <<>> }) = 2
    /\ dashLoads[i].recent # <<>> => recentReports' = dashLoads[i].recent[1]
    /\ dashLoads[i].all # <<>> => allReports' = dashLoads[i].all[1]
    /\ dashLoads[i].stats # <<>> => stats' = dashLoads[i].stats[1]

(***************************************************************************)
(* C25.  recentReports, allReports and stats change only in the step in    *)
(* which a loadDashboardData call ends with its three fetches fulfilled,   *)
(* and then the three hold the results of that call; a call that ends      *)
(* because a fetch failed changes none of them; when a call has ended,     *)
(* loading and refreshing are false.                                       *)
(***************************************************************************)
C25_AllOrNothing ==
    [][ /\ DashLoadEnds => ~dashLoading' /\ ~dashRefreshing'
        /\ dashConsole' # dashConsole
            => UNCHANGED <<recentReports, allReports, stats>>
        /\ \/ UNCHANGED <<recentReports, allReports, stats>>
           \/ /\ DashLoadEnds
              /\ \E i \in DOMAIN dashLoads : DashLoadCommits(i)
      ]_vars

\* A load has ended because a fetch failed and no load is under way: the
\* page holds the three results of another load.
C25_Witness ==
    /\ dashMounted
    /\ dashConsole # ""
    /\ dashLoads = <<>>
    /\ ~dashLoading /\ ~dashRefreshing
    /\ Len(allReports) = 2
    /\ recentReports = <<>>
    /\ stats.totalReports = 1

====
